---------------------------- MODULE Spec2Model ----------------------------
(***************************************************************************)
(* A model of gaea2_tile_helper.py: the path resolver                      *)
(* (generate_heightmap_path, generate_texture_or_roughness_path,           *)
(* generate_texture_paths) and the two grid operators                      *)
(* (OBJECT_OT_generate_render_tiles, OBJECT_OT_generate_stl_tiles).        *)
(*                                                                         *)
(* A Python str is a sequence of one-character strings, so that            *)
(* os.path.split, os.path.splitext, re.search, int() and the f-string are  *)
(* computed character by character, as the library computes them           *)
(* (os.path is posixpath; \d is modelled on the ASCII digits).             *)
(*                                                                         *)
(* The host (bpy) is modelled by what the code relies on:                  *)
(*   - context.report and self.report record a message and return;         *)
(*   - bpy.data.images.load returns an image or raises RuntimeError;       *)
(*   - primitive_plane_add leaves the new plane the only selected object;  *)
(*   - bpy.ops.wm.stl_export writes the file or raises, and a raise is not *)
(*     caught by the add-on.                                               *)
(* displacement_strength, subdivision_levels and tile_thickness are handed *)
(* to the host unread and decide no branch: they are not modelled.         *)
(* A behaviour is one invocation of one of the two operators, on a scene   *)
(* that holds one other object.                                            *)
(***************************************************************************)
EXTENDS Integers, Sequences, FiniteSets, TLC

VARIABLES
    props,           \* context.scene.tile_generator_props (TileGeneratorProperties)
    op,              \* the operator that is executing: "none", "render", "stl"
                     \* ("path": the path resolver called on its own)
    pc,              \* where execute is: "idle", "paths", "load", "build",
                     \* "finish", "export", "done"
    row, col,        \* the loop variables of execute
    result,          \* what execute returned: "NONE" while it runs, "FINISHED",
                     \* "CANCELLED", or "RAISED" (an exception left execute)
    heightmap_path, texture_path, roughness_path,   \* the tile's locals
    plane,           \* the tile's local plane: an object id, 0 before the first
    objects,         \* the scene: a set of mesh objects
    selected,        \* the ids of the selected objects
    next_id,         \* the id the next object gets
    files,           \* the files bpy.ops.wm.stl_export wrote, in order
    reports,         \* the status messages reported, in order
    built,           \* the tiles whose generate_tile_* returned FINISHED, in order
    opt_failures     \* texture/roughness loads that have failed in this run

vars == <<props, op, pc, row, col, result, heightmap_path, texture_path,
          roughness_path, plane, objects, selected, next_id, files, reports,
          built, opt_failures>>

(***************************************************************************)
(* Bounds of the model.                                                    *)
(***************************************************************************)
\* the grid sizes tried: num_rows in 1..MaxRows, num_cols in 1..MaxCols
MaxRows == 2
MaxCols == 3
\* the longest run of digits in a generated start file name
MaxDigits == 2
\* the row and column offsets tried on the path resolver alone
MaxRowOffset == 1
MaxColOffset == 3
\* optional (texture, roughness) raster loads that may fail in one run
MaxOptFailures == 1

(***************************************************************************)
(* Strings.                                                                *)
(***************************************************************************)
\* Python's None, as a value no str equals
None == <<"None">>

\* `not x` for a value that is a str or None
Falsy(x) == x = None \/ x = <<>>

DigitChars == <<"0", "1", "2", "3", "4", "5", "6", "7", "8", "9">>

IsDigit(ch) == \E i \in 1..10 : DigitChars[i] = ch

DigitValue(ch) == (CHOOSE i \in 1..10 : DigitChars[i] = ch) - 1

\* str.rfind(ch) + 1: the 1-based place of the last ch in s, 0 when there is none
RFind(s, ch) ==
    LET hits == {i \in 1..Len(s) : s[i] = ch}
    IN  IF hits = {} THEN 0 ELSE CHOOSE i \in hits : \A j \in hits : j <= i

\* s[:n] and s[n:] of Python, n a count of characters
Take(s, n) == SubSeq(s, 1, n)
Drop(s, n) == SubSeq(s, n + 1, Len(s))

AllSlashes(s) == \A i \in 1..Len(s) : s[i] = "/"

RECURSIVE RStripSlashes(_)
RStripSlashes(s) ==
    IF s # <<>> /\ s[Len(s)] = "/" THEN RStripSlashes(Take(s, Len(s) - 1)) ELSE s

\* os.path.split (posixpath): <<head, tail>>
PathSplit(p) ==
    LET i == RFind(p, "/")
        head == Take(p, i)
        tail == Drop(p, i)
    IN  IF head # <<>> /\ ~AllSlashes(head)
        THEN <<RStripSlashes(head), tail>>
        ELSE <<head, tail>>

\* os.path.basename (posixpath)
PathBasename(p) == Drop(p, RFind(p, "/"))

\* os.path.splitext (genericpath._splitext): <<root, ext>>; the dots that
\* lead the file name are not an extension
PathSplitExt(p) ==
    LET sep == RFind(p, "/")
        dot == RFind(p, ".")
    IN  IF dot > sep /\ \E k \in (sep + 1)..(dot - 1) : p[k] # "."
        THEN <<Take(p, dot - 1), Drop(p, dot - 1)>>
        ELSE <<p, <<>>>>

\* os.path.join (posixpath) of two components
PathJoin(a, b) ==
    IF b # <<>> /\ b[1] = "/" THEN b
    ELSE IF a = <<>> \/ a[Len(a)] = "/" THEN a \o b
    ELSE a \o <<"/">> \o b

\* int(): the value of a run of decimal digits
RECURSIVE ParseInt(_)
ParseInt(ds) ==
    IF ds = <<>> THEN 0
    ELSE 10 * ParseInt(Take(ds, Len(ds) - 1)) + DigitValue(ds[Len(ds)])

\* the f-string's {y}: decimal, no leading zeros
RECURSIVE FormatInt(_)
FormatInt(n) ==
    IF n < 10 THEN <<DigitChars[n + 1]>>
    ELSE FormatInt(n \div 10) \o <<DigitChars[(n % 10) + 1]>>

\* the length of the run of digits of s that starts at place i
RECURSIVE DigitRun(_, _)
DigitRun(s, i) ==
    IF i <= Len(s) /\ IsDigit(s[i]) THEN 1 + DigitRun(s, i + 1) ELSE 0

\* a plausible slip: the underscore before the y made optional, r'_?y(\d+)_x(\d+)'
MatchesAtOptionalUnderscore(s, i) ==
    LET k  == IF i <= Len(s) /\ s[i] = "_" THEN i + 1 ELSE i
        n1 == DigitRun(s, k + 1)
        j  == k + 1 + n1
    IN  /\ k <= Len(s)
        /\ s[k] = "y"
        /\ n1 >= 1
        /\ j + 1 <= Len(s)
        /\ s[j] = "_"
        /\ s[j + 1] = "x"
        /\ DigitRun(s, j + 2) >= 1

\* whether r'_y(\d+)_x(\d+)' matches s at place i (\d+ is greedy, and giving
\* digits back never helps: what follows a \d+ here is not a digit)
MatchesAt(s, i) ==
    LET n1 == DigitRun(s, i + 2)
        j  == i + 2 + n1
    IN  /\ i + 1 <= Len(s)
        /\ s[i] = "_"
        /\ s[i + 1] = "y"
        /\ n1 >= 1
        /\ j + 1 <= Len(s)
        /\ s[j] = "_"
        /\ s[j + 1] = "x"
        /\ DigitRun(s, j + 2) >= 1

\* re.search's None: no match
NoMatch == [found |-> FALSE, start |-> 0, group1 |-> <<>>, group2 |-> <<>>]

\* re.search(r'_y(\d+)_x(\d+)', s): the leftmost match, or NoMatch
ReSearch(s) ==
    LET hits == {i \in 1..Len(s) : MatchesAt(s, i)}
    IN  IF hits = {} THEN NoMatch
        ELSE LET i  == CHOOSE k \in hits : \A m \in hits : k <= m
                 n1 == DigitRun(s, i + 2)
                 j  == i + 2 + n1
                 n2 == DigitRun(s, j + 2)
             IN  [found  |-> TRUE,
                  start  |-> i - 1,
                  group1 |-> SubSeq(s, i + 2, i + 1 + n1),
                  group2 |-> SubSeq(s, j + 2, j + 1 + n2)]


(***************************************************************************)
(* The path resolver.                                                      *)
(***************************************************************************)
\* a plausible slip: the row added to x and the column to y
TilePathSwapped(base_dir, filename, ext, match, r, c) ==
    LET prefix  == Take(filename, match.start)
        y == ParseInt(match.group1) + c
        x == ParseInt(match.group2) + r
        tile_filename == prefix \o <<"_", "y">> \o FormatInt(y)
                                \o <<"_", "x">> \o FormatInt(x) \o ext
    IN  PathJoin(base_dir, tile_filename)

\* lines 93-103 and 123-133: the tile's file beside the start file, once
\* the pattern has matched the start file's stem
TilePath(base_dir, filename, ext, match, r, c) ==
    LET prefix  == Take(filename, match.start)
        start_y == ParseInt(match.group1)
        start_x == ParseInt(match.group2)
        y == start_y + r
        x == start_x + c
        tile_filename == prefix \o <<"_", "y">> \o FormatInt(y)
                                \o <<"_", "x">> \o FormatInt(x) \o ext
    IN  PathJoin(base_dir, tile_filename)

generate_heightmap_path(p, r, c) ==
    LET sp       == PathSplit(p.start_tile_file)
        base_dir == sp[1]
        se       == PathSplitExt(sp[2])
        filename == se[1]
        ext      == se[2]
        match    == ReSearch(filename)
    IN  IF ~match.found THEN None
        ELSE TilePath(base_dir, filename, ext, match, r, c)

\* a plausible slip: the texture taken at the heightmap's row of the grid only
generate_texture_or_roughness_path_first_row(file_path, r, c) ==
    IF Falsy(file_path) THEN None
    ELSE LET se    == PathSplitExt(PathSplit(file_path)[2])
             match == ReSearch(se[1])
         IN  IF ~match.found THEN None
             ELSE TilePath(PathSplit(file_path)[1], se[1], se[2], match, 0, c)

generate_texture_or_roughness_path(file_path, r, c) ==
    IF Falsy(file_path) THEN None
    ELSE LET sp       == PathSplit(file_path)
             base_dir == sp[1]
             se       == PathSplitExt(sp[2])
             filename == se[1]
             ext      == se[2]
             match    == ReSearch(filename)
         IN  IF ~match.found THEN None
             ELSE TilePath(base_dir, filename, ext, match, r, c)

\* <<heightmap_path, texture_path, roughness_path>>
generate_texture_paths(p, r, c) ==
    << generate_heightmap_path(p, r, c),
       generate_texture_or_roughness_path(p.texture_file, r, c),
       generate_texture_or_roughness_path(p.roughness_file, r, c) >>

\* a line of the status log: context.report / self.report
Report(level, msg, arg) == [level |-> level, msg |-> msg, arg |-> arg]

\* whether the pattern fails on the stem of a start file
PatternMismatch(file_path) ==
    ~ReSearch(PathSplitExt(PathSplit(file_path)[2])[1]).found

\* line 90: the report of generate_heightmap_path
HeightmapPathReports(p) ==
    IF PatternMismatch(p.start_tile_file)
    THEN <<Report("ERROR", "heightmap_pattern", p.start_tile_file)>>
    ELSE <<>>

\* line 120: the report of generate_texture_or_roughness_path
OptionalPathReports(file_path) ==
    IF ~Falsy(file_path) /\ PatternMismatch(file_path)
    THEN <<Report("ERROR", "optional_pattern", file_path)>>
    ELSE <<>>


(***************************************************************************)
(* The scene host: mesh objects, modifiers, materials.                     *)
(***************************************************************************)
NoMaterial == [name |-> <<>>, base_color |-> None, roughness |-> None,
               inverted |-> FALSE]

\* an object of the scene: the operations done on its mesh data in order,
\* its live modifiers, its material and its place
MeshObject(id, geometry) ==
    [id |-> id, geometry |-> geometry, modifiers |-> <<>>,
     material |-> NoMaterial, location |-> <<0, 0>>]

\* what the scene holds before the add-on runs: one object, selected
DefaultCube == MeshObject(0, <<"cube">>)

ObjectById(objs, id) == CHOOSE o \in objs : o.id = id

ReplaceObject(objs, o) == {x \in objs : x.id # o.id} \cup {o}

\* the pitch of the render grid and the plane's footprint
TilePitch == 10

\* prepare_plane: a unit plane scaled to 10 x 10, cut, its scale applied
prepare_plane(id) ==
    MeshObject(id, <<"plane", "resize", "subdivide", "apply_scale">>)

\* plane.modifiers.new
ModifierNew(o, name) == [o EXCEPT !.modifiers = Append(@, name)]

\* bpy.ops.object.modifier_apply: the modifier becomes geometry
ModifierApply(o, name) ==
    [o EXCEPT !.modifiers = SelectSeq(@, LAMBDA m : m # name),
              !.geometry  = Append(@, name)]

\* a plausible slip: the modifiers are added and left live
apply_displacement_live(o) ==
    ModifierNew(ModifierNew(o, "Subsurf"), "Displace")

\* apply_displacement: both modifiers are added, then both are applied
apply_displacement(o) ==
    ModifierApply(
        ModifierApply(ModifierNew(ModifierNew(o, "Subsurf"), "Displace"),
                      "Subsurf"),
        "Displace")

\* a plausible slip: one try block around both loads, so that a texture that
\* fails to load takes the roughness map with it
assign_material_one_try(o, r, c, tpath, rpath, invert, tex_ok, rough_ok) ==
    [o EXCEPT !.material =
        [name       |-> <<r, c>>,
         base_color |-> IF ~Falsy(tpath) /\ tex_ok THEN tpath ELSE None,
         roughness  |-> IF ~Falsy(rpath) /\ rough_ok /\ (Falsy(tpath) \/ tex_ok)
                        THEN rpath ELSE None,
         inverted   |-> ~Falsy(rpath) /\ rough_ok /\ (Falsy(tpath) \/ tex_ok)
                        /\ invert]]

\* assign_material: tex_ok and rough_ok are what bpy.data.images.load does
\* (TRUE: it returns the image, FALSE: it raises RuntimeError)
assign_material(o, r, c, tpath, rpath, invert, tex_ok, rough_ok) ==
    [o EXCEPT !.material =
        [name       |-> <<r, c>>,
         base_color |-> IF ~Falsy(tpath) /\ tex_ok THEN tpath ELSE None,
         roughness  |-> IF ~Falsy(rpath) /\ rough_ok THEN rpath ELSE None,
         inverted   |-> ~Falsy(rpath) /\ rough_ok /\ invert]]

\* the reports of assign_material
AssignMaterialReports(tpath, rpath, tex_ok, rough_ok) ==
    (IF Falsy(tpath) THEN <<>>
     ELSE IF tex_ok THEN <<Report("INFO", "texture_loaded", tpath)>>
     ELSE <<Report("ERROR", "texture_failed", tpath)>>)
    \o
    (IF Falsy(rpath) THEN <<>>
     ELSE IF rough_ok THEN <<Report("INFO", "roughness_loaded", rpath)>>
     ELSE <<Report("ERROR", "roughness_failed", rpath)>>)

\* the number of loads of assign_material that failed
FailedLoads(tpath, rpath, tex_ok, rough_ok) ==
    (IF ~Falsy(tpath) /\ ~tex_ok THEN 1 ELSE 0)
    + (IF ~Falsy(rpath) /\ ~rough_ok THEN 1 ELSE 0)

\* lines 332-349: transforms applied, extrude, flatten the base, normals
finish_solid(o) ==
    [o EXCEPT !.geometry = @ \o <<"apply_transforms", "extrude", "flatten",
                                  "normals">>]

\* a plausible slip: the delete left out
delete_nothing(objs, sel) == objs

\* bpy.ops.object.delete: the selected objects leave the scene
delete_selected(objs, sel) == {o \in objs : o.id \notin sel}

\* the suffix of the exported file
StlExt == <<".", "s", "t", "l">>

\* lines 352-353: where the tile is exported
export_path(p, hpath) ==
    PathJoin(p.output_dir, PathSplitExt(PathBasename(hpath))[1] \o StlExt)

(***************************************************************************)
(* The grid loop of execute.                                               *)
(***************************************************************************)
\* single_heightmap of execute
single_heightmap(p) == p.num_rows = 1 /\ p.num_cols = 1

\* a plausible slip: the loops nested the other way round
LoopNextColumnMajor(p, r, c) ==
    IF r + 1 < p.num_rows THEN [done |-> FALSE, row |-> r + 1, col |-> c]
    ELSE IF c + 1 < p.num_cols THEN [done |-> FALSE, row |-> 0, col |-> c + 1]
    ELSE [done |-> TRUE, row |-> r, col |-> c]

\* for row in range(num_rows): for col in range(num_cols): what follows (r, c)
LoopNext(p, r, c) ==
    IF c + 1 < p.num_cols THEN [done |-> FALSE, row |-> r, col |-> c + 1]
    ELSE IF r + 1 < p.num_rows THEN [done |-> FALSE, row |-> r + 1, col |-> 0]
    ELSE [done |-> TRUE, row |-> r, col |-> c]


\* a plausible slip: a configured optional input that did not resolve
\* cancels the tile too
tile_cancelled_on_any(p, hpath, tpath, rpath) ==
    \/ Falsy(hpath)
    \/ ~Falsy(p.texture_file) /\ Falsy(tpath)
    \/ ~Falsy(p.roughness_file) /\ Falsy(rpath)

\* `if not heightmap_path`: what makes generate_tile_for_render give up
tile_cancelled(p, hpath, tpath, rpath) == Falsy(hpath)

(***************************************************************************)
(* The configurations tried.                                               *)
(***************************************************************************)
HeightA   == <<"t", "_", "y", "0", "_", "x", "0", ".", "p", "n", "g">>
HeightB   == <<"d", "/", "t", "_", "y", "0", "8", "_", "x", "9", ".", "p", "n", "g">>
FlatPng   == <<"f", "l", "a", "t", ".", "p", "n", "g">>
TexSame   == <<"c", "_", "y", "0", "_", "x", "0", ".", "p", "n", "g">>
TexAhead  == <<"c", "_", "y", "1", "_", "x", "0", ".", "p", "n", "g">>
TexPlain  == <<"t", "e", "x", ".", "p", "n", "g">>
RoughA    == <<"r", "_", "y", "0", "_", "x", "0", ".", "p", "n", "g">>
OutDir    == <<"o", "u", "t">>

StartFiles     == {HeightA, HeightB, FlatPng}
TextureFiles   == {<<>>, TexSame, TexAhead, TexPlain}
RoughnessFiles == {<<>>, RoughA}
OutputDirs     == {<<>>, OutDir}

\* the start files of the set-ups with a texture or a roughness map
TexturedStartFiles == {HeightA, FlatPng}

\* render set-ups (a texture, a roughness map or both; output_dir unset) and
\* plain set-ups (no render option set; any start file, any output_dir);
\* either operator may run on either
Configs ==
    [num_rows : 1..MaxRows, num_cols : 1..MaxCols,
     start_tile_file : TexturedStartFiles,
     texture_file : TextureFiles, roughness_file : RoughnessFiles,
     invert_roughness_map : BOOLEAN, output_dir : {<<>>}]
    \cup
    [num_rows : 1..MaxRows, num_cols : 1..MaxCols, start_tile_file : StartFiles,
     texture_file : {<<>>}, roughness_file : {<<>>},
     invert_roughness_map : {FALSE}, output_dir : OutputDirs]

Init ==
    /\ props \in Configs
    /\ op = "none"
    /\ pc = "idle"
    /\ row = 0
    /\ col = 0
    /\ result = "NONE"
    /\ heightmap_path = None
    /\ texture_path = None
    /\ roughness_path = None
    /\ plane = 0
    /\ objects = {DefaultCube}
    /\ selected = {0}
    /\ next_id = 1
    /\ files = <<>>
    /\ reports = <<>>
    /\ built = <<>>
    /\ opt_failures = 0

(***************************************************************************)
(* The end of one tile: execute's test of the tile's result.               *)
(***************************************************************************)
\* a plausible slip: the tile's CANCELLED not tested, the loop goes on
CancelIgnored ==
    LET n == LoopNext(props, row, col)
    IN  /\ row' = n.row
        /\ col' = n.col
        /\ pc' = IF n.done THEN "done" ELSE "paths"
        /\ result' = IF n.done THEN "FINISHED" ELSE result

\* the tile returned CANCELLED: execute returns it
Cancel ==
    /\ result' = "CANCELLED"
    /\ pc' = "done"
    /\ UNCHANGED <<row, col>>

\* the tile returned FINISHED: the next tile, or execute returns FINISHED
Advance ==
    LET n == LoopNext(props, row, col)
    IN  /\ built' = Append(built, <<row, col>>)
        /\ row' = n.row
        /\ col' = n.col
        /\ pc' = IF n.done THEN "done" ELSE "paths"
        /\ result' = IF n.done THEN "FINISHED" ELSE result

(***************************************************************************)
(* OBJECT_OT_generate_render_tiles.                                        *)
(***************************************************************************)
InvokeRender ==
    /\ op = "none" /\ pc = "idle"
    /\ op' = "render"
    /\ pc' = "paths"
    /\ row' = 0
    /\ col' = 0
    /\ UNCHANGED <<props, result, heightmap_path, texture_path, roughness_path,
                   plane, objects, selected, next_id, files, reports, built,
                   opt_failures>>

RenderPaths ==
    /\ op = "render" /\ pc = "paths"
    /\ LET paths == generate_texture_paths(props, row, col)
       IN  /\ heightmap_path' = paths[1]
           /\ texture_path' = paths[2]
           /\ roughness_path' = paths[3]
           /\ reports' = reports \o HeightmapPathReports(props)
                                 \o OptionalPathReports(props.texture_file)
                                 \o OptionalPathReports(props.roughness_file)
           /\ IF tile_cancelled(props, paths[1], paths[2], paths[3])
              THEN Cancel
              ELSE pc' = "load" /\ UNCHANGED <<row, col, result>>
    /\ UNCHANGED <<props, op, plane, objects, selected, next_id, files, built,
                   opt_failures>>

RenderLoad ==
    /\ op = "render" /\ pc = "load"
    /\ \E ok \in BOOLEAN :
          IF ok
          THEN pc' = "build" /\ UNCHANGED <<row, col, result, reports>>
          ELSE /\ reports' = Append(reports,
                                Report("WARNING", "heightmap_failed", heightmap_path))
               /\ Cancel
    /\ UNCHANGED <<props, op, heightmap_path, texture_path, roughness_path, plane,
                   objects, selected, next_id, files, built, opt_failures>>

RenderBuild ==
    /\ op = "render" /\ pc = "build"
    /\ objects' = objects \cup {apply_displacement(prepare_plane(next_id))}
    /\ plane' = next_id
    /\ selected' = {next_id}
    /\ next_id' = next_id + 1
    /\ pc' = "finish"
    /\ UNCHANGED <<props, op, row, col, result, heightmap_path, texture_path,
                   roughness_path, files, reports, built, opt_failures>>

RenderFinish ==
    /\ op = "render" /\ pc = "finish"
    /\ \E tex_ok \in BOOLEAN, rough_ok \in BOOLEAN :
          LET nfail == FailedLoads(texture_path, roughness_path, tex_ok, rough_ok)
              withMaterial ==
                  assign_material(ObjectById(objects, plane), row, col,
                                  texture_path, roughness_path,
                                  props.invert_roughness_map, tex_ok, rough_ok)
              placed ==
                  [withMaterial EXCEPT !.location = <<col * TilePitch, -(row * TilePitch)>>]
          IN  /\ Falsy(texture_path) => tex_ok
              /\ Falsy(roughness_path) => rough_ok
              /\ opt_failures + nfail <= MaxOptFailures
              /\ opt_failures' = opt_failures + nfail
              /\ objects' = ReplaceObject(objects, placed)
              /\ selected' = selected \cup {plane}
              /\ reports' = reports \o AssignMaterialReports(texture_path,
                                           roughness_path, tex_ok, rough_ok)
    /\ Advance
    /\ UNCHANGED <<props, op, heightmap_path, texture_path, roughness_path, plane,
                   next_id, files>>

(***************************************************************************)
(* OBJECT_OT_generate_stl_tiles.                                           *)
(***************************************************************************)
InvokeStl ==
    /\ op = "none" /\ pc = "idle"
    /\ op' = "stl"
    /\ pc' = "paths"
    /\ row' = 0
    /\ col' = 0
    /\ UNCHANGED <<props, result, heightmap_path, texture_path, roughness_path,
                   plane, objects, selected, next_id, files, reports, built,
                   opt_failures>>

StlPaths ==
    /\ op = "stl" /\ pc = "paths"
    /\ LET hpath == generate_heightmap_path(props, row, col)
       IN  /\ heightmap_path' = hpath
           /\ reports' = reports \o HeightmapPathReports(props)
           /\ IF Falsy(hpath)
              THEN Cancel
              ELSE pc' = "load" /\ UNCHANGED <<row, col, result>>
    /\ UNCHANGED <<props, op, texture_path, roughness_path, plane, objects,
                   selected, next_id, files, built, opt_failures>>

StlLoad ==
    /\ op = "stl" /\ pc = "load"
    /\ \E ok \in BOOLEAN :
          IF ok
          THEN pc' = "build" /\ UNCHANGED <<row, col, result, reports>>
          ELSE /\ reports' = Append(reports,
                                Report("WARNING", "heightmap_failed", heightmap_path))
               /\ Cancel
    /\ UNCHANGED <<props, op, heightmap_path, texture_path, roughness_path, plane,
                   objects, selected, next_id, files, built, opt_failures>>

StlBuild ==
    /\ op = "stl" /\ pc = "build"
    /\ objects' = objects \cup {apply_displacement(prepare_plane(next_id))}
    /\ plane' = next_id
    /\ selected' = {next_id}
    /\ next_id' = next_id + 1
    /\ pc' = "finish"
    /\ UNCHANGED <<props, op, row, col, result, heightmap_path, texture_path,
                   roughness_path, files, reports, built, opt_failures>>

StlSolid ==
    /\ op = "stl" /\ pc = "finish"
    /\ objects' = ReplaceObject(objects, finish_solid(ObjectById(objects, plane)))
    /\ pc' = "export"
    /\ UNCHANGED <<props, op, row, col, result, heightmap_path, texture_path,
                   roughness_path, plane, selected, next_id, files, reports,
                   built, opt_failures>>

\* the export, then the delete of what is selected; when the host's export
\* fails, bpy.ops raises and the exception leaves execute
StlExport ==
    /\ op = "stl" /\ pc = "export"
    /\ LET path == export_path(props, heightmap_path)
           sel  == {plane}
       IN  \E ok \in BOOLEAN :
              IF ok
              THEN /\ files' = Append(files,
                                 [path |-> path,
                                  geometry |-> ObjectById(objects, plane).geometry])
                   /\ objects' = delete_selected(objects, sel)
                   /\ selected' = {}
                   /\ reports' = Append(reports, Report("INFO", "stl_generated", path))
                   /\ Advance
              ELSE /\ selected' = sel
                   /\ result' = "RAISED"
                   /\ pc' = "done"
                   /\ UNCHANGED <<files, objects, reports, built, row, col>>
    /\ UNCHANGED <<props, op, heightmap_path, texture_path, roughness_path, plane,
                   next_id, opt_failures>>

Next ==
    \/ InvokeRender
    \/ RenderPaths
    \/ RenderLoad
    \/ RenderBuild
    \/ RenderFinish
    \/ InvokeStl
    \/ StlPaths
    \/ StlLoad
    \/ StlBuild
    \/ StlSolid
    \/ StlExport

Spec == Init /\ [][Next]_vars


(***************************************************************************)
(* The path resolver on its own: generate_texture_paths called with any    *)
(* start file and any offsets.                                             *)
(***************************************************************************)
PathDigits == {"0", "9"}

\* the runs of digits of a start file name: 1 to MaxDigits digits
DigitStrings == UNION {[1..n -> PathDigits] : n \in 1..MaxDigits}

PngExt == <<".", "p", "n", "g">>

PathDirs     == {<<>>, <<"d", "/">>, <<"/", "/">>}
PathPrefixes == {<<>>, <<"t">>, <<"a", ".", "b">>, <<"t", "_", "y", "1">>}
PathSuffixes == {<<>>, <<"_", "h">>}
PathExts     == {<<>>, PngExt}

\* _y<digits>_x<digits>
CoordCore(a, b) == <<"_", "y">> \o a \o <<"_", "x">> \o b

\* y<digits>_x<digits>: no underscore before the y
BareCore(a, b) == <<"y">> \o a \o <<"_", "x">> \o b

\* every _y<digits>_x<digits> of the digit runs tried
CoordCores == {CoordCore(a, b) : a \in DigitStrings, b \in DigitStrings}

\* a few cores, well-formed and not, tried in every directory, prefix,
\* suffix and extension
BasicCores ==
    {CoordCore(<<"0">>, <<"0">>), CoordCore(<<"9">>, <<"0", "9">>),
     BareCore(<<"0">>, <<"0">>), BareCore(<<"9">>, <<"0", "9">>),
     <<>>, <<"_", "y", "_", "x", "0">>, <<"_", "y", "0", "x", "0">>, <<"_", "y", "0", "_", "x">>}

TerrainPng == <<"t", "e", "r", "r", "a", "i", "n", "_", "y", "2", "_", "x", "5", ".", "p", "n", "g">>

PathInputs ==
    {d \o pre \o core \o suf \o ext :
        d \in PathDirs, pre \in PathPrefixes, core \in BasicCores,
        suf \in PathSuffixes, ext \in PathExts}
    \cup {d \o core \o ext :
        d \in {<<>>, <<"d", "/", "t">>}, core \in CoordCores, ext \in PathExts}
    \cup {TerrainPng, FlatPng}

PathInit ==
    /\ \E f \in PathInputs :
          props = [num_rows |-> 1, num_cols |-> 1, start_tile_file |-> f,
                   texture_file |-> f, roughness_file |-> f,
                   invert_roughness_map |-> FALSE, output_dir |-> <<>>]
    /\ op = "path"
    /\ pc = "idle"
    /\ row = 0
    /\ col = 0
    /\ result = "NONE"
    /\ heightmap_path = None
    /\ texture_path = None
    /\ roughness_path = None
    /\ plane = 0
    /\ objects = {DefaultCube}
    /\ selected = {0}
    /\ next_id = 1
    /\ files = <<>>
    /\ reports = <<>>
    /\ built = <<>>
    /\ opt_failures = 0

ResolvePaths ==
    /\ op = "path" /\ pc = "idle"
    /\ \E r \in 0..MaxRowOffset, c \in 0..MaxColOffset :
          LET paths == generate_texture_paths(props, r, c)
          IN  /\ row' = r
              /\ col' = c
              /\ heightmap_path' = paths[1]
              /\ texture_path' = paths[2]
              /\ roughness_path' = paths[3]
    /\ reports' = reports \o HeightmapPathReports(props)
                          \o OptionalPathReports(props.texture_file)
                          \o OptionalPathReports(props.roughness_file)
    /\ pc' = "done"
    /\ UNCHANGED <<props, op, result, plane, objects, selected, next_id, files,
                   built, opt_failures>>

PathNext == ResolvePaths

PathSpec == PathInit /\ [][PathNext]_vars


(***************************************************************************)
(* What the properties below read off a path.                              *)
(***************************************************************************)
\* the stem of the file a path names
StemOf(path) == PathSplitExt(PathSplit(path)[2])[1]

\* the (y, x) a path carries
CoordsOf(path) ==
    LET m == ReSearch(StemOf(path))
    IN  <<ParseInt(m.group1), ParseInt(m.group2)>>

\* what stands before the coordinates in the stem
PrefixOf(path) == Take(StemOf(path), ReSearch(StemOf(path)).start)

\* out is base moved by (r, c): same directory, prefix and extension, the
\* coordinates of base plus (r, c)
MovedBy(base, out, r, c) ==
    /\ out # None
    /\ PathSplit(out)[1] = PathSplit(base)[1]
    /\ PathSplitExt(PathSplit(out)[2])[2] = PathSplitExt(PathSplit(base)[2])[2]
    /\ ~PatternMismatch(out)
    /\ PrefixOf(out) = PrefixOf(base)
    /\ CoordsOf(out) = <<CoordsOf(base)[1] + r, CoordsOf(base)[2] + c>>

\* the tile's paths have been resolved and are those of tile (row, col)
PathsResolved == op = "render" /\ pc \in {"load", "build", "finish"}

HasReport(msg) == \E i \in 1..Len(reports) : reports[i].msg = msg

\* the heightmap of some tile did not resolve or did not load
HeightmapFailed == HasReport("heightmap_pattern") \/ HasReport("heightmap_failed")

\* the planes the run has put in the scene
Planes == {o \in objects : o.id # DefaultCube.id}

(***************************************************************************)
(* C1: in single-tile mode (rows = 1, cols = 1) both commands use the      *)
(* configured start heightmap verbatim, without the pattern match, so a    *)
(* start file without coordinates is never the reason of a CANCELLED.      *)
(***************************************************************************)
C1_SingleTileVerbatim ==
    (single_heightmap(props) /\ op \in {"render", "stl"}
                             /\ pc \notin {"idle", "paths"})
        => /\ heightmap_path = props.start_tile_file
           /\ ~HasReport("heightmap_pattern")

Y0X0Png == <<"y", "0", "_", "x", "0", ".", "p", "n", "g">>

UnderscoreY0X0Png == <<"_", "y", "0", "_", "x", "0", ".", "p", "n", "g">>

\* a file name, no directory, whose stem is exactly y<digits>_x<digits>
IsBareCoordFile(f) ==
    \E a \in DigitStrings, b \in DigitStrings, e \in PathExts :
        f = BareCore(a, b) \o e

\* a file name, no directory, whose stem is exactly _y<digits>_x<digits>
IsUnderscoreCoordFile(f) ==
    \E a \in DigitStrings, b \in DigitStrings, e \in PathExts :
        f = CoordCore(a, b) \o e

\* both runs of digits are written without leading zeros
NoLeadingZeros(f) ==
    \E a \in DigitStrings, b \in DigitStrings, e \in PathExts :
        /\ f = CoordCore(a, b) \o e
        /\ Len(a) = 1 \/ a[1] # "0"
        /\ Len(b) = 1 \/ b[1] # "0"

(***************************************************************************)
(* C2: a stem that is exactly y<Y>_x<X>, nothing before the y, resolves    *)
(* (no FAILURE), and "y0_x0.png" at offsets (0, 0) resolves to itself.     *)
(***************************************************************************)
C2_BareStemResolves ==
    (op = "path" /\ pc = "done" /\ IsBareCoordFile(props.start_tile_file))
        => /\ heightmap_path # None
           /\ (props.start_tile_file = Y0X0Png /\ row = 0 /\ col = 0)
                  => heightmap_path = Y0X0Png

\* C2 as amended: the underscore before the y is required even with an empty
\* prefix: y<Y>_x<X> is a FAILURE; the file name _y<Y>_x<X> resolves, and at
\* offsets (0, 0), written without leading zeros, to itself
C2_UnderscoreRequired ==
    (op = "path" /\ pc = "done")
        => /\ IsBareCoordFile(props.start_tile_file) => heightmap_path = None
           /\ IsUnderscoreCoordFile(props.start_tile_file)
                  => /\ heightmap_path # None
                     /\ (row = 0 /\ col = 0 /\ NoLeadingZeros(props.start_tile_file))
                            => heightmap_path = props.start_tile_file

C2_Witness ==
    /\ op = "path" /\ pc = "done" /\ row = 0 /\ col = 0
    /\ props.start_tile_file = UnderscoreY0X0Png
    /\ heightmap_path = UnderscoreY0X0Png

TerrainY3X8Png == <<"t", "e", "r", "r", "a", "i", "n", "_", "y", "3", "_", "x", "8", ".", "p", "n", "g">>

(***************************************************************************)
(* C3: for a start file whose stem matches _y<Y>_x<X> and offsets >= 0,    *)
(* the heightmap, texture and roughness paths are in the same directory,   *)
(* with the same prefix and extension, at (Y + rowOffset, X + colOffset);  *)
(* "terrain_y2_x5.png" at (1, 3) is "terrain_y3_x8.png".                   *)
(***************************************************************************)
C3_ResolveAddsOffsets ==
    (op = "path" /\ pc = "done")
        => /\ ~PatternMismatch(props.start_tile_file)
                  => /\ MovedBy(props.start_tile_file, heightmap_path, row, col)
                     /\ MovedBy(props.texture_file, texture_path, row, col)
                     /\ MovedBy(props.roughness_file, roughness_path, row, col)
           /\ (props.start_tile_file = TerrainPng /\ row = 1 /\ col = 3)
                  => /\ heightmap_path = TerrainY3X8Png
                     /\ texture_path = TerrainY3X8Png
                     /\ roughness_path = TerrainY3X8Png

C3_Witness ==
    /\ op = "path" /\ pc = "done" /\ row = 1 /\ col = 3
    /\ props.start_tile_file = TerrainPng
    /\ heightmap_path = TerrainY3X8Png
    /\ roughness_path = TerrainY3X8Png

(***************************************************************************)
(* C9: in a render run the heightmap path and every texture and roughness  *)
(* path present of a tile carry the same (y, x), whatever the start files. *)
(***************************************************************************)
C9_SameSuffix ==
    PathsResolved
        => /\ texture_path # None => CoordsOf(texture_path) = CoordsOf(heightmap_path)
           /\ roughness_path # None
                  => CoordsOf(roughness_path) = CoordsOf(heightmap_path)

\* what one optional input of the tile must be, given its start file
OwnOffset(start_file, path) ==
    path # None
        => /\ CoordsOf(path) = <<CoordsOf(start_file)[1] + row,
                                 CoordsOf(start_file)[2] + col>>
           /\ (CoordsOf(path) = CoordsOf(heightmap_path))
                  <=> (CoordsOf(start_file) = CoordsOf(props.start_tile_file))

\* C9 as amended: every path of the tile carries the coordinates of its own
\* start file plus (row, col); the suffixes agree exactly when the start
\* files' coordinates agree with the heightmap's
C9_OwnStartPlusOffset ==
    PathsResolved
        => /\ CoordsOf(heightmap_path) = <<CoordsOf(props.start_tile_file)[1] + row,
                                           CoordsOf(props.start_tile_file)[2] + col>>
           /\ OwnOffset(props.texture_file, texture_path)
           /\ OwnOffset(props.roughness_file, roughness_path)

C9_Witness ==
    /\ PathsResolved /\ row = 1 /\ col = 1
    /\ props.start_tile_file = HeightA /\ props.texture_file = TexAhead
    /\ CoordsOf(heightmap_path) = <<1, 1>>
    /\ CoordsOf(texture_path) = <<2, 1>>


(***************************************************************************)
(* What the properties below expect of a run, stated without the model's   *)
(* loop and export definitions.                                            *)
(***************************************************************************)
\* the tiles of a rows x cols grid, row by row
RowMajor(rows, cols) ==
    [k \in 1..(rows * cols) |-> <<(k - 1) \div cols, (k - 1) % cols>>]

\* the tiles that come before (r, c)
RowMajorBefore(rows, cols, r, c) == SubSeq(RowMajor(rows, cols), 1, r * cols + c)

GridSize == props.num_rows * props.num_cols

RowMajor2x3 == << <<0, 0>>, <<0, 1>>, <<0, 2>>, <<1, 0>>, <<1, 1>>, <<1, 2>> >>

\* the file the STL command must write for tile (r, c): the stem of the
\* tile's heightmap file, ".stl", in output_dir
ExpectedStlPath(p, r, c) ==
    LET y0 == IF p.start_tile_file = HeightB THEN 8 ELSE 0
        x0 == IF p.start_tile_file = HeightB THEN 9 ELSE 0
        name == <<"t", "_", "y">> \o FormatInt(y0 + r) \o <<"_", "x">>
                    \o FormatInt(x0 + c) \o <<".", "s", "t", "l">>
    IN  IF p.output_dir = <<>> THEN name ELSE p.output_dir \o <<"/">> \o name

ReportAbout(msg, path) ==
    \E i \in 1..Len(reports) : reports[i].msg = msg /\ reports[i].arg = path

\* the texture or roughness file tile (r, c) must use, for the start files
\* tried: the start file's own coordinates plus (r, c); None when the start
\* file is unset or carries no coordinates
ExpectedOptionalPath(file_path, r, c) ==
    IF file_path = TexSame
    THEN <<"c", "_", "y">> \o FormatInt(r) \o <<"_", "x">> \o FormatInt(c) \o PngExt
    ELSE IF file_path = TexAhead
    THEN <<"c", "_", "y">> \o FormatInt(1 + r) \o <<"_", "x">> \o FormatInt(c) \o PngExt
    ELSE IF file_path = RoughA
    THEN <<"r", "_", "y">> \o FormatInt(r) \o <<"_", "x">> \o FormatInt(c) \o PngExt
    ELSE None

\* the shader input a tile must have for one optional path
ExpectedInput(path, failed_msg) ==
    IF path = None \/ ReportAbout(failed_msg, path) THEN None ELSE path

\* the place of the first x in a sequence, 0 when it is not there
FirstAt(seq, x) ==
    LET hits == {i \in 1..Len(seq) : seq[i] = x}
    IN  IF hits = {} THEN 0 ELSE CHOOSE i \in hits : \A j \in hits : i <= j

\* both modifiers are part of the geometry, in order, and none is live
Baked(o) ==
    /\ o.modifiers = <<>>
    /\ FirstAt(o.geometry, "Subsurf") > 0
    /\ FirstAt(o.geometry, "Subsurf") < FirstAt(o.geometry, "Displace")

\* both modifiers are live on the object, and not part of the geometry
Live(o) ==
    /\ o.modifiers = <<"Subsurf", "Displace">>
    /\ FirstAt(o.geometry, "Subsurf") = 0
    /\ FirstAt(o.geometry, "Displace") = 0

\* the object the render command left for tile t, complete: material, place
RenderTileLeft(t) ==
    \E o \in Planes :
        /\ o.material.name = t
        /\ o.location = <<t[2] * 10, -(t[1] * 10)>>
        /\ FirstAt(o.geometry, "Displace") > 0

\* a configured optional start file that does not carry coordinates
OptionalMismatch(file_path) == file_path # <<>> /\ PatternMismatch(file_path)

(***************************************************************************)
(* C4: in both commands, when the heightmap of tile (r, c) does not        *)
(* resolve or does not load, the run returns CANCELLED, no tile after      *)
(* (r, c) is resolved, loaded or built, and the tiles completed before it  *)
(* stay as they were (scene objects, output files).                        *)
(***************************************************************************)
C4_AbortOnFirstFailure ==
    (op \in {"render", "stl"} /\ HeightmapFailed)
        => /\ result = "CANCELLED"
           /\ pc = "done"
           /\ built = RowMajorBefore(props.num_rows, props.num_cols, row, col)
           /\ op = "render"
                  => /\ Cardinality(Planes) = Len(built)
                     /\ \A k \in 1..Len(built) : RenderTileLeft(built[k])
           /\ op = "stl"
                  => /\ Planes = {}
                     /\ Len(files) = Len(built)
                     /\ \A k \in 1..Len(built) :
                            files[k].path = ExpectedStlPath(props, built[k][1], built[k][2])

C4_Witness ==
    /\ op = "render" /\ props.num_rows = 2 /\ props.num_cols = 2
    /\ HasReport("heightmap_failed")
    /\ row = 0 /\ col = 1
    /\ result = "CANCELLED"
    /\ built = << <<0, 0>> >>
    /\ RenderTileLeft(<<0, 0>>)

C6_OptionalLoadIsolated ==
    op = "render"
        => /\ \A k \in 1..Len(built) :
                 LET tp == ExpectedOptionalPath(props.texture_file, built[k][1], built[k][2])
                     rp == ExpectedOptionalPath(props.roughness_file, built[k][1], built[k][2])
                 IN  \E o \in Planes :
                        /\ o.material.name = built[k]
                        /\ o.location = <<built[k][2] * 10, -(built[k][1] * 10)>>
                        /\ Baked(o)
                        /\ o.material.base_color = ExpectedInput(tp, "texture_failed")
                        /\ o.material.roughness = ExpectedInput(rp, "roughness_failed")
           /\ Cardinality({i \in 1..Len(reports) :
                             reports[i].msg \in {"texture_failed", "roughness_failed"}})
                 = opt_failures
           /\ Cardinality({o \in Planes : o.material # NoMaterial}) = Len(built)
           /\ ((HasReport("texture_failed") \/ HasReport("roughness_failed"))
                  /\ ~HeightmapFailed)
                  => /\ result # "CANCELLED"
                     /\ pc = "done" => result = "FINISHED" /\ Len(built) = GridSize

C6_Witness ==
    /\ op = "render" /\ result = "FINISHED" /\ Len(built) >= 2
    /\ props.texture_file = TexSame /\ props.roughness_file = RoughA
    /\ ReportAbout("texture_failed", TexSame)
    /\ \E o \in Planes :
          /\ o.material.name = <<0, 0>>
          /\ o.material.base_color = None
          /\ o.material.roughness = RoughA

(***************************************************************************)
(* C7: every tile the STL command completes writes one file, named         *)
(* <stem of the tile's heightmap file>.stl, in output_dir, and then its    *)
(* mesh object is deleted: between tiles, and when the run has returned    *)
(* FINISHED or CANCELLED, the scene holds no object of the run, and the    *)
(* files written are those of the tiles completed.                         *)
(***************************************************************************)
C7_StlLifecycle ==
    op = "stl"
        => /\ Len(files) = Len(built)
           /\ \A k \in 1..Len(files) :
                 files[k].path = ExpectedStlPath(props, built[k][1], built[k][2])
           /\ \A j, k \in 1..Len(files) : files[j].path = files[k].path => j = k
           /\ (pc \in {"paths", "load"}
                  \/ (pc = "done" /\ result \in {"FINISHED", "CANCELLED"}))
                  => objects = {DefaultCube}

C7_Witness ==
    /\ op = "stl" /\ pc = "done" /\ result = "FINISHED"
    /\ props.output_dir = OutDir /\ props.start_tile_file = HeightB
    /\ Len(files) = 4
    /\ files[4].path = <<"o", "u", "t", "/", "t", "_", "y", "9", "_", "x", "1", "0", ".", "s", "t", "l">>
    /\ objects = {DefaultCube}

(***************************************************************************)
(* C8: both commands walk the grid row by row, one tile at a time: tile    *)
(* (r, c) starts when exactly the tiles before it have finished; rows = 2, *)
(* cols = 3 is built (0,0),(0,1),(0,2),(1,0),(1,1),(1,2); a run that       *)
(* returns FINISHED has built every tile once.                             *)
(***************************************************************************)
C8_RowMajorOrder ==
    op \in {"render", "stl"}
        => /\ result = "FINISHED"
                  => built = RowMajor(props.num_rows, props.num_cols)
           /\ result # "FINISHED"
                  => built = RowMajorBefore(props.num_rows, props.num_cols, row, col)
           /\ (result = "FINISHED" /\ props.num_rows = 2 /\ props.num_cols = 3)
                  => built = RowMajor2x3

C8_Witness ==
    /\ op = "render" /\ result = "FINISHED"
    /\ props.num_rows = 2 /\ props.num_cols = 3
    /\ built = RowMajor2x3
    /\ Cardinality(Planes) = 6

=============================================================================
